---- MODULE Spec2Model ----
(***************************************************************************)
(* Model of the ComfyUI node pack: ImageGrid.create_grid                   *)
(* (src/image_grid.py) and the text-label helpers and TextLabel node       *)
(* (src/text_label.py).  Every call is a state machine over the locals of  *)
(* the function; the inputs of a call are drawn in the initial state.      *)
(***************************************************************************)
EXTENDS Integers, Sequences, FiniteSets, TLC

VARIABLES
    \* ---- ImageGrid.create_grid ----
    columns,        \* argument
    padding,        \* argument
    image_slots,    \* image_1 .. image_6: slot -> batch or NoImage
    gpc,            \* position in create_grid
    target,         \* [h, w, c]: target_height, target_width, channels
    final_images,   \* the concatenated batch, a sequence of images
    cols, rows,     \* grid dimensions
    grid,           \* the canvas
    idx,            \* loop index of the placement loop
    written,        \* the rectangles assigned so far, in order
    grid_ret,       \* the returned tensor
    gerror,         \* exception raised by create_grid, or "none"
    \* ---- load_font / get_font_paths ----
    font_family,    \* argument
    font_size,      \* argument
    is_linux,       \* platform.system().lower() == "linux"
    loadable,       \* the paths ImageFont.truetype can load (the file system)
    fpc,            \* position in load_font
    font_paths,     \* get_font_paths(font_family)
    fi,             \* index of the candidate being tried
    font_ret,       \* the returned font
    ferror,         \* exception raised by load_font, or "none"
    \* ---- calculate_position ----
    pos_args,       \* the six arguments
    ppc,            \* position in calculate_position
    pos_ret,        \* the returned <<x, y>>
    \* ---- hex_to_rgba ----
    hex_color,      \* argument: a string, as the sequence of its characters
    alpha,          \* argument: a float, as the exact fraction <<num, den>>
    cpc,            \* position in hex_to_rgba
    color_ret,      \* [raised, rgba]: the exception raised or the tuple returned
    \* ---- TextLabel.add_text_label ----
    label_args,     \* the arguments, and what the font measures for the text
    lpc,            \* position in add_text_label
    font,           \* load_font(font_family, font_size)
    scheme_colors,  \* [text_color, bg_color, stroke_color]
    li,             \* loop index i
    output_images,  \* the list the loop appends to
    label_ret,      \* the returned batch
    lerror          \* exception raised by add_text_label, or "none"

gridVars == <<columns, padding, image_slots, gpc, target, final_images,
              cols, rows, grid, idx, written, grid_ret, gerror>>

fontVars == <<font_family, font_size, is_linux, loadable, fpc, font_paths, fi,
              font_ret, ferror>>

posVars == <<pos_args, ppc, pos_ret>>

colorVars == <<hex_color, alpha, cpc, color_ret>>

labelVars == <<label_args, lpc, font, scheme_colors, li, output_images, label_ret,
               lerror>>

vars == <<gridVars, fontVars, posVars, colorVars, labelVars>>

-----------------------------------------------------------------------------
(* Bounds of the model *)

MaxColumns == 4
MaxPadding == 1

\* sizes of the supplied batches (shape[0])
BatchSizes == {0, 1, 3, 7}
\* per-image <<height, width>> of the supplied batches
Shapes == { <<1, 2>>, <<2, 1>> }
\* channel counts (shape[3]); all batches of one call share it (torch.cat)
ChannelCounts == {3, 4}
\* which of the six slots are supplied
SlotPatterns == { {}, {1}, {4}, {1, 2}, {2, 6}, {1, 3, 5} }

\* the number of loadable font files of a run
MaxLoadable == 2
\* requested font sizes
FontSizes == {6, 30}
\* a family name that is in neither table
UnknownFamily == "Comic Sans"

\* calculate_position: image <<width, height>> and box <<width, height>>
ImageDims == { <<200, 100>>, <<4, 3>>, <<1, 1>> }
BoxDims == { <<50, 20>>, <<7, 6>>, <<2, 1>>, <<0, 0>> }
EdgeOffsets == {0, 1, 10}
\* the five anchors and two values that are none of them
Placements == {"top_left", "top_right", "bottom_left", "bottom_right", "center",
               "middle", ""}

\* hex_to_rgba: the colour string is prefix, body, suffix
MaxHexLen == 6
ColorChars == {"0", "c", "F", "G"}
ColorPrefixes == { <<>>, <<"#">>, <<" ", "#">>, <<"#", "#">>, <<"#", " ">> }
ColorSuffixes == { <<>>, <<" ">> }
\* opacities as fractions <<num, den>>, den a power of two (exact as floats)
Opacities == { <<-1, 4>>, <<0, 1>>, <<1, 4>>, <<1, 2>>, <<3, 4>>, <<1, 1>>, <<5, 4>> }

\* add_text_label: the batch, and the style parameters tried
MaxLabelBatch == 3
LabelImageDims == { <<4, 3>>, <<64, 32>> }
LabelChannels == {3, 4}
LabelPlacements == {"top_left", "center"}
LabelOpacities == {0, 128, 255}
LabelRadii == {0, 15}
\* <<left, top, right, bottom>> as the font measures the text
TextBoxes == { <<0, 0, 2, 1>>, <<1, 2, 10, 9>> }
\* the font files present when the label is drawn
LabelFontFiles == { {}, {[dir |-> "", file |-> "Arial.ttf"]} }

-----------------------------------------------------------------------------
(* ImageGrid.create_grid *)

NumSlots == 6
Slots == 1..NumSlots

PlaceholderSize == 512
PlaceholderChannels == 3

NoImage == [n |-> 0, h |-> 0, w |-> 0, c |-> 0, present |-> FALSE]

Batch(n, h, w, c) == [n |-> n, h |-> h, w |-> w, c |-> c, present |-> TRUE]

\* image k (1-based) of the batch in slot s; src identifies the input image
ImageOf(s, k, b) == [src |-> 100 * s + k, h |-> b.h, w |-> b.w, c |-> b.c,
                     scaled |-> FALSE]

\* a pixel (all channels) of an image
Black == [src |-> 0, scaled |-> FALSE, y |-> 0, x |-> 0]
Pixel(img, y, x) == [src |-> img.src, scaled |-> img.scaled, y |-> y, x |-> x]

\* torch.zeros((1, h, w, c)): painted holds the samples written since
Zeros(h, w, c) == [n |-> 1, h |-> h, w |-> w, c |-> c, painted |-> <<>>]

Sample(canvas, y, x) ==
    IF <<y, x>> \in DOMAIN canvas.painted THEN canvas.painted[<<y, x>>] ELSE Black

\* all_images: the supplied slots in slot order
RECURSIVE CollectFrom(_, _)
CollectFrom(slots, s) ==
    IF s > NumSlots THEN <<>>
    ELSE (IF slots[s].present THEN <<s>> ELSE <<>>) \o CollectFrom(slots, s + 1)

AllImages(slots) == CollectFrom(slots, 1)

\* variant: the size given as (width, height)
InterpolateSwapped(img, th, tw) == [img EXCEPT !.h = tw, !.w = th, !.scaled = TRUE]
\* F.interpolate(..., size=(target_height, target_width), mode="bilinear")
Interpolate(img, th, tw) == [img EXCEPT !.h = th, !.w = tw, !.scaled = TRUE]

NeedsResize(b, th, tw) == b.h # th \/ b.w # tw

\* the images of the batch in slot s after the resize stage
ProcessedBatch(slots, s, th, tw) ==
    [k \in 1..slots[s].n |->
        IF NeedsResize(slots[s], th, tw)
        THEN Interpolate(ImageOf(s, k, slots[s]), th, tw)
        ELSE ImageOf(s, k, slots[s])]

\* torch.cat(processed_images, dim=0)
RECURSIVE Cat(_, _, _, _)
Cat(slots, supplied, th, tw) ==
    IF supplied = <<>> THEN <<>>
    ELSE ProcessedBatch(slots, Head(supplied), th, tw)
            \o Cat(slots, Tail(supplied), th, tw)

\* math.ceil(a / b), b > 0 (the float quotient is exact at these sizes)
CeilDiv(a, b) == (a + b - 1) \div b

\* math.ceil(math.sqrt(n))
CeilSqrt(n) == CHOOSE r \in 0..n : r * r >= n /\ (r = 0 \/ (r - 1) * (r - 1) < n)

\* variant: the empty batch is not returned early
EmptyBatchNoGuard(n) == FALSE
\* if batch_size == 0: return the placeholder
EmptyBatch(n) == n = 0

\* cols of the grid
GridCols(n, c) == IF c > 0 THEN c ELSE CeilSqrt(n)

\* variant: rows rounded down
GridRowsFloor(n, k) == n \div k
\* rows of the grid
GridRows(n, k) == CeilDiv(n, k)

\* grid_height / grid_width
GridExtent(count, size, pad) == count * size + (count - 1) * pad

\* variant: cells packed without the padding
CellStartNoPad(i, size, pad) == i * size
\* y_start / x_start of a cell
CellStart(i, size, pad) == i * (size + pad)

\* row = idx // cols
CellRow(i, k) == i \div k

\* variant: // in place of %
CellColDiv(i, k) == i \div k
\* col = idx % cols
CellCol(i, k) == i % k

\* the rectangle y_start:y_end, x_start:x_end written for image i (0-based)
Rect(i, k, th, tw, pad) ==
    [y0 |-> CellStart(CellRow(i, k), th, pad),
     y1 |-> CellStart(CellRow(i, k), th, pad) + th,
     x0 |-> CellStart(CellCol(i, k), tw, pad),
     x1 |-> CellStart(CellCol(i, k), tw, pad) + tw]

Coords(rc) == (rc.y0 .. rc.y1 - 1) \X (rc.x0 .. rc.x1 - 1)

\* the slice y0:y1, x0:x1 of the canvas has the shape of the image
SliceFits(canvas, rc) ==
    /\ 0 <= rc.y0 /\ rc.y1 <= canvas.h
    /\ 0 <= rc.x0 /\ rc.x1 <= canvas.w

\* grid[0, y_start:y_end, x_start:x_end, :] = img
Paste(canvas, rc, img) ==
    [canvas EXCEPT !.painted =
        [p \in (DOMAIN canvas.painted) \cup Coords(rc) |->
            IF p \in Coords(rc) THEN Pixel(img, p[1] - rc.y0, p[2] - rc.x0)
            ELSE canvas.painted[p]]]

NoTarget == [h |-> 0, w |-> 0, c |-> 0]
NoCanvas == Zeros(0, 0, 0)

GridInputs ==
    /\ columns \in 0..MaxColumns
    /\ padding \in 0..MaxPadding
    /\ \E pat \in SlotPatterns, ch \in ChannelCounts :
         \E given \in [pat -> { Batch(n, sh[1], sh[2], ch) :
                                    n \in BatchSizes, sh \in Shapes }] :
            image_slots = [s \in Slots |-> IF s \in pat THEN given[s] ELSE NoImage]

GridLocalsInit ==
    /\ target = NoTarget
    /\ final_images = <<>>
    /\ cols = 0
    /\ rows = 0
    /\ grid = NoCanvas
    /\ idx = 0
    /\ written = <<>>
    /\ grid_ret = NoCanvas
    /\ gerror = "none"

GridInit == GridInputs /\ gpc = "collect" /\ GridLocalsInit

GridIdleState ==
    /\ columns = 0 /\ padding = 0
    /\ image_slots = [s \in Slots |-> NoImage]
    /\ gpc = "idle"
    /\ GridLocalsInit

\* lines 60-97: collect, resize, concatenate, and the two placeholders
GridCollect ==
    /\ UNCHANGED <<fontVars, posVars, colorVars, labelVars>>
    /\ gpc = "collect"
    /\ LET all_images == AllImages(image_slots) IN
       IF all_images = <<>>
       THEN /\ grid_ret' = Zeros(PlaceholderSize, PlaceholderSize, PlaceholderChannels)
            /\ gpc' = "done"
            /\ UNCHANGED <<target, final_images>>
       ELSE LET base == image_slots[all_images[1]]
                cat == Cat(image_slots, all_images, base.h, base.w)
            IN /\ target' = [h |-> base.h, w |-> base.w, c |-> base.c]
               /\ final_images' = cat
               /\ IF EmptyBatch(Len(cat))
                  THEN /\ grid_ret' = Zeros(base.h, base.w, base.c)
                       /\ gpc' = "done"
                  ELSE /\ gpc' = "layout"
                       /\ UNCHANGED grid_ret
    /\ UNCHANGED <<columns, padding, image_slots, cols, rows, grid, idx, written,
                   gerror>>

\* lines 99-117: grid dimensions and the zero canvas
GridLayout ==
    /\ UNCHANGED <<fontVars, posVars, colorVars, labelVars>>
    /\ gpc = "layout"
    /\ LET batch_size == Len(final_images)
           k == GridCols(batch_size, columns)
       IN IF k = 0
          THEN /\ gerror' = "ZeroDivisionError"
               /\ gpc' = "raised"
               /\ UNCHANGED <<cols, rows, grid, idx>>
          ELSE LET r == GridRows(batch_size, k)
                   grid_height == GridExtent(r, target.h, padding)
                   grid_width == GridExtent(k, target.w, padding)
               IN IF grid_height < 0 \/ grid_width < 0
                  THEN /\ gerror' = "RuntimeError"
                       /\ gpc' = "raised"
                       /\ UNCHANGED <<cols, rows, grid, idx>>
                  ELSE /\ cols' = k
                       /\ rows' = r
                       /\ grid' = Zeros(grid_height, grid_width, target.c)
                       /\ idx' = 0
                       /\ gpc' = "place"
                       /\ UNCHANGED gerror
    /\ UNCHANGED <<columns, padding, image_slots, target, final_images, written,
                   grid_ret>>

\* lines 120-129: one iteration of the placement loop
GridPlace ==
    /\ UNCHANGED <<fontVars, posVars, colorVars, labelVars>>
    /\ gpc = "place"
    /\ idx < Len(final_images)
    /\ LET rc == Rect(idx, cols, target.h, target.w, padding) IN
       IF SliceFits(grid, rc)
       THEN /\ grid' = Paste(grid, rc, final_images[idx + 1])
            /\ written' = Append(written, rc)
            /\ idx' = idx + 1
            /\ UNCHANGED <<gpc, gerror>>
       ELSE /\ gerror' = "RuntimeError"
            /\ gpc' = "raised"
            /\ UNCHANGED <<grid, idx, written>>
    /\ UNCHANGED <<columns, padding, image_slots, target, final_images,
                   cols, rows, grid_ret>>

\* line 131: return (grid,)
GridReturn ==
    /\ UNCHANGED <<fontVars, posVars, colorVars, labelVars>>
    /\ gpc = "place"
    /\ idx = Len(final_images)
    /\ grid_ret' = grid
    /\ gpc' = "done"
    /\ UNCHANGED <<columns, padding, image_slots, target, final_images,
                   cols, rows, grid, idx, written, gerror>>

GridNext == GridCollect \/ GridLayout \/ GridPlace \/ GridReturn


-----------------------------------------------------------------------------
(* Font resolution: get_font_paths and load_font *)

CUSTOM_FONTS ==
    ("Funnel Sans" :> <<"Funnel_Sans/static/FunnelSans-Regular.ttf",
                        "FunnelSans-Regular.ttf">>)
 @@ ("Funnel Sans Bold" :> <<"Funnel_Sans/static/FunnelSans-Bold.ttf",
                             "FunnelSans-Bold.ttf">>)
 @@ ("Google Sans Code" :> <<"Google_Sans_Code/static/GoogleSansCode-Regular.ttf",
                             "GoogleSansCode-Regular.ttf">>)
 @@ ("Google Sans Code Bold" :> <<"Google_Sans_Code/static/GoogleSansCode-Bold.ttf",
                                  "GoogleSansCode-Bold.ttf">>)
 @@ ("Arial" :> <<"arial.ttf", "Arial.ttf">>)
 @@ ("Arial Bold" :> <<"arialbd.ttf", "Arialbd.ttf", "Arial Bold.ttf">>)
 @@ ("Monospace" :> <<"consola.ttf", "Consola.ttf", "DejaVuSansMono.ttf">>)

SYSTEM_FONTS ==
    ("Arial" :> <<"C:\\Windows\\Fonts\\arial.ttf",
                  "/Library/Fonts/Arial.ttf",
                  "/usr/share/fonts/truetype/msttcorefonts/Arial.ttf">>)
 @@ ("Arial Bold" :> <<"C:\\Windows\\Fonts\\arialbd.ttf",
                       "/Library/Fonts/Arial Bold.ttf",
                       "/usr/share/fonts/truetype/msttcorefonts/Arial_Bold.ttf">>)
 @@ ("Monospace" :> <<"C:\\Windows\\Fonts\\consola.ttf",
                      "/Library/Fonts/Menlo.ttc",
                      "/usr/share/fonts/truetype/dejavu/DejaVuSansMono.ttf">>)

\* os.path.join(dir, file); a path given as one string has dir ""
Join(dir, file) == [dir |-> dir, file |-> file]
Plain(path) == Join("", path)

\* os.path.join(os.path.dirname(__file__), "fonts")
local_fonts_dir == "<module>/fonts"

\* the two user font files tried on Linux
UserFontPaths ==
    << Join("~/.fonts", "DejaVuSansMono.ttf"),
       Join("~/.local/share/fonts", "DejaVuSansMono.ttf") >>

\* for fname in filenames: paths.append(fname); paths.append(join(local, fname))
RECURSIVE BundledPaths(_)
BundledPaths(filenames) ==
    IF filenames = <<>> THEN <<>>
    ELSE << Plain(Head(filenames)), Join(local_fonts_dir, Head(filenames)) >>
            \o BundledPaths(Tail(filenames))

SystemPaths(family) ==
    IF family \in DOMAIN SYSTEM_FONTS
    THEN [j \in 1..Len(SYSTEM_FONTS[family]) |-> Plain(SYSTEM_FONTS[family][j])]
    ELSE <<>>

\* variant: the system paths listed before the bundled files
get_font_paths_system_first(family, linux) ==
    SystemPaths(family)
        \o (IF family \in DOMAIN CUSTOM_FONTS
            THEN BundledPaths(CUSTOM_FONTS[family]) ELSE <<>>)
        \o (IF linux THEN UserFontPaths ELSE <<>>)
\* get_font_paths(font_family)
get_font_paths(family, linux) ==
    (IF family \in DOMAIN CUSTOM_FONTS
     THEN BundledPaths(CUSTOM_FONTS[family]) ELSE <<>>)
        \o SystemPaths(family)
        \o (IF linux THEN UserFontPaths ELSE <<>>)

\* ImageFont.truetype(font_path, font_size) and ImageFont.load_default()
TrueType(path, size) == [kind |-> "truetype", path |-> path, size |-> size]
DefaultFont == [kind |-> "default", path |-> Plain(""), size |-> 0]
NoFont == [kind |-> "none", path |-> Plain(""), size |-> 0]

Range(seq) == { seq[i] : i \in DOMAIN seq }

Families == DOMAIN CUSTOM_FONTS \cup {UnknownFamily}

\* the files whose presence can matter to a request for the family
FontPool(family) ==
    (IF family \in DOMAIN CUSTOM_FONTS
     THEN Range(BundledPaths(CUSTOM_FONTS[family])) ELSE {Plain("arial.ttf")})
        \cup Range(SystemPaths(family)) \cup Range(UserFontPaths)

FontInit ==
    /\ font_family \in Families
    /\ font_size \in FontSizes
    /\ is_linux \in BOOLEAN
    /\ loadable \in { fs \in SUBSET FontPool(font_family) : Cardinality(fs) <= MaxLoadable }
    /\ fpc = "paths"
    /\ font_paths = <<>>
    /\ fi = 0
    /\ font_ret = NoFont
    /\ ferror = "none"

FontIdleState ==
    /\ font_family = "" /\ font_size = 0 /\ is_linux = FALSE /\ loadable = {}
    /\ fpc = "idle" /\ font_paths = <<>> /\ fi = 0
    /\ font_ret = NoFont /\ ferror = "none"

\* line 115: the candidate list is built once, before the loop
FontGetPaths ==
    /\ UNCHANGED <<gridVars, posVars, colorVars, labelVars>>
    /\ fpc = "paths"
    /\ font_paths' = get_font_paths(font_family, is_linux)
    /\ fi' = 1
    /\ fpc' = "try"
    /\ UNCHANGED <<font_family, font_size, is_linux, loadable, font_ret, ferror>>

\* lines 115-119: one candidate; a failure to load is caught and skipped
FontTry ==
    /\ UNCHANGED <<gridVars, posVars, colorVars, labelVars>>
    /\ fpc = "try"
    /\ fi <= Len(font_paths)
    /\ IF font_paths[fi] \in loadable
       THEN /\ font_ret' = TrueType(font_paths[fi], font_size)
            /\ fpc' = "done"
            /\ UNCHANGED fi
       ELSE /\ fi' = fi + 1
            /\ UNCHANGED <<font_ret, fpc>>
    /\ UNCHANGED <<font_family, font_size, is_linux, loadable, font_paths, ferror>>

\* line 121: every candidate failed
FontDefault ==
    /\ UNCHANGED <<gridVars, posVars, colorVars, labelVars>>
    /\ fpc = "try"
    /\ fi > Len(font_paths)
    /\ font_ret' = DefaultFont
    /\ fpc' = "done"
    /\ UNCHANGED <<font_family, font_size, is_linux, loadable, font_paths, fi, ferror>>

FontNext == FontGetPaths \/ FontTry \/ FontDefault

-----------------------------------------------------------------------------
(* calculate_position *)

\* variant: the half rounded toward zero, as int((a - b) / 2) would
CenterCoordTruncated(outer, inner) ==
    IF outer - inner >= 0 THEN (outer - inner) \div 2 ELSE -((inner - outer) \div 2)
\* (image_width - box_width) // 2: Python's // rounds toward minus infinity
CenterCoord(outer, inner) == (outer - inner) \div 2

\* the positions dictionary, lines 143-149
Positions(image_width, image_height, box_width, box_height, edge_offset) ==
    ("top_left" :> <<edge_offset, edge_offset>>)
 @@ ("top_right" :> <<image_width - box_width - edge_offset, edge_offset>>)
 @@ ("bottom_left" :> <<edge_offset, image_height - box_height - edge_offset>>)
 @@ ("bottom_right" :> <<image_width - box_width - edge_offset,
                         image_height - box_height - edge_offset>>)
 @@ ("center" :> <<CenterCoord(image_width, box_width),
                   CenterCoord(image_height, box_height)>>)

Max(a, b) == IF a >= b THEN a ELSE b
Min(a, b) == IF a <= b THEN a ELSE b

\* variant: the position clamped to the image's top-left corner
calculate_position_clamped(image_width, image_height, box_width, box_height, placement, edge_offset) ==
    LET positions == Positions(image_width, image_height, box_width, box_height,
                               edge_offset)
        xy == IF placement \in DOMAIN positions THEN positions[placement]
              ELSE positions["center"]
    IN << Max(0, xy[1]), Max(0, xy[2]) >>
\* positions.get(placement, positions["center"])
calculate_position(image_width, image_height, box_width, box_height, placement, edge_offset) ==
    LET positions == Positions(image_width, image_height, box_width, box_height,
                               edge_offset)
    IN IF placement \in DOMAIN positions THEN positions[placement]
       ELSE positions["center"]

PosArgs(iw, ih, bw, bh, pl, off) ==
    [image_width |-> iw, image_height |-> ih, box_width |-> bw, box_height |-> bh,
     placement |-> pl, edge_offset |-> off]

NoPosition == <<0, 0>>

PosInit ==
    /\ \E im \in ImageDims, bx \in BoxDims, pl \in Placements, off \in EdgeOffsets :
         pos_args = PosArgs(im[1], im[2], bx[1], bx[2], pl, off)
    /\ ppc = "call"
    /\ pos_ret = NoPosition

PosIdleState ==
    /\ pos_args = PosArgs(0, 0, 0, 0, "", 0)
    /\ ppc = "idle"
    /\ pos_ret = NoPosition

\* the whole function, lines 143-152
PosCall ==
    /\ UNCHANGED <<gridVars, fontVars, colorVars, labelVars>>
    /\ ppc = "call"
    /\ pos_ret' = calculate_position(pos_args.image_width, pos_args.image_height,
                                     pos_args.box_width, pos_args.box_height,
                                     pos_args.placement, pos_args.edge_offset)
    /\ ppc' = "done"
    /\ UNCHANGED pos_args

PosNext == PosCall

-----------------------------------------------------------------------------
(* hex_to_rgba *)

Whitespace == {" "}

\* the value of a hexadecimal digit
HexDigit ==
    ("0" :> 0) @@ ("1" :> 1) @@ ("2" :> 2) @@ ("3" :> 3) @@ ("4" :> 4) @@ ("5" :> 5)
 @@ ("6" :> 6) @@ ("7" :> 7) @@ ("8" :> 8) @@ ("9" :> 9)
 @@ ("a" :> 10) @@ ("b" :> 11) @@ ("c" :> 12) @@ ("d" :> 13) @@ ("e" :> 14) @@ ("f" :> 15)
 @@ ("A" :> 10) @@ ("B" :> 11) @@ ("C" :> 12) @@ ("D" :> 13) @@ ("E" :> 14) @@ ("F" :> 15)

\* str.lstrip(chars)
RECURSIVE LStrip(_, _)
LStrip(str, chars) ==
    IF str # <<>> /\ Head(str) \in chars THEN LStrip(Tail(str), chars) ELSE str

\* str.rstrip(chars)
RECURSIVE RStrip(_, _)
RStrip(str, chars) ==
    IF str # <<>> /\ str[Len(str)] \in chars
    THEN RStrip(SubSeq(str, 1, Len(str) - 1), chars) ELSE str

\* str.strip()
Strip(str) == RStrip(LStrip(str, Whitespace), Whitespace)

\* int(str, 16) over the characters of the model: surrounding whitespace is
\* ignored, then every character must be a hexadecimal digit, at least one
RECURSIVE HexValue(_)
HexValue(digits) ==
    IF digits = <<>> THEN 0
    ELSE 16 * HexValue(SubSeq(digits, 1, Len(digits) - 1)) + HexDigit[digits[Len(digits)]]

ParseHex(str) ==
    LET digits == Strip(str) IN
    IF digits # <<>> /\ \A i \in 1..Len(digits) : digits[i] \in DOMAIN HexDigit
    THEN [ok |-> TRUE, value |-> HexValue(digits)]
    ELSE [ok |-> FALSE, value |-> 0]

\* int(x) of the fraction num/den, den > 0: toward zero
IntOf(num, den) == IF num >= 0 THEN num \div den ELSE -((-num) \div den)

ByteMax == 255

\* max(0, min(255, int(alpha * 255)))
AlphaValue(a) == Max(0, Min(ByteMax, IntOf(a[1] * ByteMax, a[2])))

Returned(r, g, b, a) == [raised |-> "none", rgba |-> <<r, g, b, a>>]
Raised(exc) == [raised |-> exc, rgba |-> <<0, 0, 0, 0>>]

\* hex_to_rgba(hex_color, alpha)
hex_to_rgba(color, a) ==
    LET hex == LStrip(Strip(color), {"#"}) IN
    IF Len(hex) = 3
    THEN LET r == ParseHex(<<hex[1], hex[1]>>)
             g == ParseHex(<<hex[2], hex[2]>>)
             b == ParseHex(<<hex[3], hex[3]>>)
         IN IF r.ok /\ g.ok /\ b.ok
            THEN Returned(r.value, g.value, b.value, AlphaValue(a))
            ELSE Raised("ValueError")
    ELSE IF Len(hex) = 6
    THEN LET r == ParseHex(SubSeq(hex, 1, 2))
             g == ParseHex(SubSeq(hex, 3, 4))
             b == ParseHex(SubSeq(hex, 5, 6))
         IN IF r.ok /\ g.ok /\ b.ok
            THEN Returned(r.value, g.value, b.value, AlphaValue(a))
            ELSE Raised("ValueError")
    ELSE Returned(ByteMax, ByteMax, ByteMax, AlphaValue(a))

\* the strings of at most n characters of the set
RECURSIVE StringsUpTo(_, _)
StringsUpTo(chars, n) ==
    IF n = 0 THEN { <<>> }
    ELSE LET shorter == StringsUpTo(chars, n - 1)
         IN shorter \cup { Append(str, ch) : str \in shorter, ch \in chars }

NoColor == Raised("none")

ColorInit ==
    /\ \E pre \in ColorPrefixes, body \in StringsUpTo(ColorChars, MaxHexLen),
          post \in ColorSuffixes :
         hex_color = pre \o body \o post
    /\ alpha \in Opacities
    /\ cpc = "call"
    /\ color_ret = NoColor

ColorIdleState ==
    /\ hex_color = <<>> /\ alpha = <<0, 1>> /\ cpc = "idle" /\ color_ret = NoColor

\* the whole function, lines 61-73
ColorCall ==
    /\ UNCHANGED <<gridVars, fontVars, posVars, labelVars>>
    /\ cpc = "call"
    /\ color_ret' = hex_to_rgba(hex_color, alpha)
    /\ cpc' = "done"
    /\ UNCHANGED <<hex_color, alpha>>

ColorNext == ColorCall

-----------------------------------------------------------------------------
(* TextLabel.add_text_label *)

\* load_font as a function of the file system: the loop of lines 115-121
RECURSIVE FirstThatLoads(_, _, _)
FirstThatLoads(paths, size, files) ==
    IF paths = <<>> THEN DefaultFont
    ELSE IF Head(paths) \in files THEN TrueType(Head(paths), size)
    ELSE FirstThatLoads(Tail(paths), size, files)

load_font(family, size, linux, files) ==
    FirstThatLoads(get_font_paths(family, linux), size, files)

\* the characters of "#FFFFFF" and "#000000"
WhiteHex == <<"#", "F", "F", "F", "F", "F", "F">>
BlackHex == <<"#", "0", "0", "0", "0", "0", "0">>

\* lines 220-225
SchemeColors(color_scheme) ==
    IF color_scheme = "white_on_black"
    THEN [text_color |-> WhiteHex, bg_color |-> BlackHex, stroke_color |-> BlackHex]
    ELSE [text_color |-> BlackHex, bg_color |-> WhiteHex, stroke_color |-> WhiteHex]

\* image[i] of the input (i is 1-based here)
InputImage(a, i) == [src |-> i, h |-> a.h, w |-> a.w, c |-> a.c]

\* image.shape[0] after the unsqueeze of a 3D input
InputCount(a) == IF a.dim = 3 THEN 1 ELSE a.n

\* pil_image.convert("RGB"): three channels whatever the input had
OutputChannels(img) == 3

\* lines 231-288 for one image: the tensor appended to output_images
Render(img, a, fnt, colours) ==
    LET text_width == a.bbox[3] - a.bbox[1]
        text_height == a.bbox[4] - a.bbox[2]
        box_width == text_width + a.padding * 2
        box_height == text_height + a.padding * 2
        xy == calculate_position(img.w, img.h, box_width, box_height,
                                 a.placement, a.edge_offset)
        radius == Max(0, Min(a.corner_radius, Min(box_width, box_height) \div 2))
        \* int(center_x - text_width / 2.0 - left), center_x = x + box_width / 2.0
        text_x == IntOf(2 * xy[1] + box_width - text_width - 2 * a.bbox[1], 2)
        text_y == IntOf(2 * xy[2] + box_height - text_height - 2 * a.bbox[2], 2)
    IN [src |-> img.src, h |-> img.h, w |-> img.w, c |-> OutputChannels(img),
        box |-> <<xy[1], xy[2], xy[1] + box_width, xy[2] + box_height>>,
        radius |-> radius,
        fill |-> hex_to_rgba(colours.bg_color, <<a.background_opacity, ByteMax>>),
        text_at |-> <<text_x, text_y>>,
        text_fill |-> hex_to_rgba(colours.text_color, <<1, 1>>),
        stroke_fill |-> hex_to_rgba(colours.stroke_color, <<1, 1>>),
        stroke_width |-> a.stroke_width,
        align |-> a.text_align,
        font |-> fnt]

NoColors == [text_color |-> <<>>, bg_color |-> <<>>, stroke_color |-> <<>>]

LabelArgs(dim, n, im, c, pl, scheme, opacity, radius, bbox, files) ==
    [dim |-> dim, n |-> n, w |-> im[1], h |-> im[2], c |-> c,
     font_family |-> "Arial", font_size |-> 30, text_align |-> "left",
     placement |-> pl, edge_offset |-> 1, color_scheme |-> scheme, padding |-> 1,
     corner_radius |-> radius, stroke_width |-> 1, background_opacity |-> opacity,
     bbox |-> bbox, linux |-> TRUE, files |-> files]

LabelInit ==
    /\ \E dim \in {3, 4}, n \in 0..MaxLabelBatch, im \in LabelImageDims,
          c \in LabelChannels, pl \in LabelPlacements,
          scheme \in {"white_on_black", "black_on_white"},
          opacity \in LabelOpacities, radius \in LabelRadii, bbox \in TextBoxes,
          files \in LabelFontFiles :
         /\ dim = 3 => n = 1
         /\ label_args = LabelArgs(dim, n, im, c, pl, scheme, opacity, radius, bbox, files)
    /\ lpc = "start"
    /\ font = NoFont
    /\ scheme_colors = NoColors
    /\ li = 0
    /\ output_images = <<>>
    /\ label_ret = <<>>
    /\ lerror = "none"

LabelIdleState ==
    /\ label_args = LabelArgs(4, 0, <<0, 0>>, 0, "", "", 0, 0, <<0, 0, 0, 0>>, {})
    /\ lpc = "idle"
    /\ font = NoFont
    /\ scheme_colors = NoColors
    /\ li = 0
    /\ output_images = <<>>
    /\ label_ret = <<>>
    /\ lerror = "none"

\* lines 212-228: the batch axis, the font, the colours, the empty list
LabelStart ==
    /\ UNCHANGED <<gridVars, fontVars, posVars, colorVars>>
    /\ lpc = "start"
    /\ font' = load_font(label_args.font_family, label_args.font_size,
                         label_args.linux, label_args.files)
    /\ scheme_colors' = SchemeColors(label_args.color_scheme)
    /\ li' = 0
    /\ lpc' = "loop"
    /\ UNCHANGED <<label_args, output_images, label_ret, lerror>>

\* lines 229-288: one image of the batch
LabelImage ==
    /\ UNCHANGED <<gridVars, fontVars, posVars, colorVars>>
    /\ lpc = "loop"
    /\ li < InputCount(label_args)
    /\ output_images' =
          Append(output_images,
                 Render(InputImage(label_args, li + 1), label_args, font, scheme_colors))
    /\ li' = li + 1
    /\ UNCHANGED <<label_args, lpc, font, scheme_colors, label_ret, lerror>>

\* line 290: torch.stack(output_images, dim=0), which rejects an empty list
LabelReturn ==
    /\ UNCHANGED <<gridVars, fontVars, posVars, colorVars>>
    /\ lpc = "loop"
    /\ li = InputCount(label_args)
    /\ IF output_images = <<>>
       THEN /\ lerror' = "RuntimeError"
            /\ lpc' = "raised"
            /\ UNCHANGED label_ret
       ELSE /\ label_ret' = output_images
            /\ lpc' = "done"
            /\ UNCHANGED lerror
    /\ UNCHANGED <<label_args, font, scheme_colors, li, output_images>>

LabelNext == LabelStart \/ LabelImage \/ LabelReturn

-----------------------------------------------------------------------------
(* Specifications: one call of one function at a time *)

InitGrid ==
    GridInit /\ FontIdleState /\ PosIdleState /\ ColorIdleState /\ LabelIdleState
InitFont ==
    GridIdleState /\ FontInit /\ PosIdleState /\ ColorIdleState /\ LabelIdleState
InitPos ==
    GridIdleState /\ FontIdleState /\ PosInit /\ ColorIdleState /\ LabelIdleState
InitColor ==
    GridIdleState /\ FontIdleState /\ PosIdleState /\ ColorInit /\ LabelIdleState
InitLabel ==
    GridIdleState /\ FontIdleState /\ PosIdleState /\ ColorIdleState /\ LabelInit

SpecGrid == InitGrid /\ [][GridNext]_vars

SpecFont == InitFont /\ [][FontNext]_vars

SpecPos == InitPos /\ [][PosNext]_vars

SpecColor == InitColor /\ [][ColorNext]_vars

SpecLabel == InitLabel /\ [][LabelNext]_vars

Init == InitGrid \/ InitFont \/ InitPos \/ InitColor \/ InitLabel

Next == GridNext \/ FontNext \/ PosNext \/ ColorNext \/ LabelNext

Spec == Init /\ [][Next]_vars

-----------------------------------------------------------------------------
(* Properties of ImageGrid.create_grid *)

BatchSize == Len(final_images)
GridLaidOut == gpc \in {"place", "done"} /\ BatchSize >= 1
GridDone == gpc = "done" /\ BatchSize >= 1

\* C1: for every concatenated batch_size >= 1, columns >= 0 and padding >= 0,
\* cols = columns when columns > 0 and otherwise cols is the least integer whose
\* square is at least batch_size (batch_size 10 gives cols 4, rows 3); rows is
\* the least integer with rows * cols >= batch_size; the call does not raise,
\* and the returned canvas has batch dimension 1, width
\* cols*image_width + (cols-1)*padding and height
\* rows*image_height + (rows-1)*padding.
C1_GridDimensions ==
    /\ BatchSize >= 1 => gpc # "raised" /\ gerror = "none"
    /\ GridLaidOut =>
        /\ columns > 0 => cols = columns
        /\ columns = 0 => cols * cols >= BatchSize /\ (cols - 1) * (cols - 1) < BatchSize
        /\ rows * cols >= BatchSize /\ (rows - 1) * cols < BatchSize
        /\ (columns = 0 /\ BatchSize = 10) => (cols = 4 /\ rows = 3)
    /\ GridDone =>
        /\ grid_ret.n = 1
        /\ grid_ret.w = cols * target.w + (cols - 1) * padding
        /\ grid_ret.h = rows * target.h + (rows - 1) * padding

C1_Witness ==
    /\ gpc = "done" /\ columns = 0 /\ BatchSize = 10 /\ padding > 0
    /\ cols = 4 /\ rows = 3

RectsOverlap(a, b) ==
    /\ a.x0 < b.x1 /\ b.x0 < a.x1
    /\ a.y0 < b.y1 /\ b.y0 < a.y1

\* C2: the rectangles written for two distinct image indices never overlap,
\* every written rectangle lies inside the allocated canvas, and no image is
\* cut short (the assignment of a cell never fails); one rectangle is written
\* per image.
C2_NoOverlapNoClipping ==
    /\ gerror = "none"
    /\ Len(written) = idx
    /\ gpc = "done" /\ BatchSize >= 1 => Len(written) = BatchSize
    /\ \A i \in 1..Len(written) :
        /\ 0 <= written[i].x0 /\ written[i].x0 <= written[i].x1
        /\ written[i].x1 <= grid.w
        /\ 0 <= written[i].y0 /\ written[i].y0 <= written[i].y1
        /\ written[i].y1 <= grid.h
        /\ written[i].x1 - written[i].x0 = target.w
        /\ written[i].y1 - written[i].y0 = target.h
        /\ \A j \in 1..Len(written) : i # j => ~RectsOverlap(written[i], written[j])

C2_Witness ==
    /\ gpc = "done" /\ BatchSize = 10 /\ Len(written) = 10
    /\ padding = 0 /\ columns = 3

\* the index of the image covering canvas sample (y, x), as the layout rule
\* has it: row = i div cols, col = i mod cols, top-left
\* (col*(w+padding), row*(h+padding)); {} when no image covers it
CoveringImages(y, x) ==
    { i \in 0..(BatchSize - 1) :
        LET top == (i \div cols) * (target.h + padding)
            left == (i % cols) * (target.w + padding)
        IN /\ top <= y /\ y < top + target.h
           /\ left <= x /\ x < left + target.w }

\* C3: in the returned canvas image idx appears verbatim in the rectangle
\* whose top-left is (col*(w+padding), row*(h+padding)) with row = idx div cols
\* and col = idx mod cols, and every other sample is zero.
C3_RowMajorPlacement ==
    GridDone =>
        /\ DOMAIN grid_ret.painted \subseteq (0..(grid_ret.h - 1)) \X (0..(grid_ret.w - 1))
        /\ \A y \in 0..(grid_ret.h - 1), x \in 0..(grid_ret.w - 1) :
            LET over == CoveringImages(y, x) IN
            /\ Cardinality(over) <= 1
            /\ over = {} => Sample(grid_ret, y, x) = Black
            /\ \A i \in over :
                 Sample(grid_ret, y, x) =
                    Pixel(final_images[i + 1],
                          y - (i \div cols) * (target.h + padding),
                          x - (i % cols) * (target.w + padding))
        /\ \A i \in 0..(BatchSize - 1) :
             \E y \in 0..(grid_ret.h - 1), x \in 0..(grid_ret.w - 1) :
                Sample(grid_ret, y, x).src = final_images[i + 1].src

\* a padding gap and an unfilled trailing cell are both present
C3_Witness ==
    /\ gpc = "done" /\ BatchSize = 7 /\ columns = 3 /\ padding = 1
    /\ Sample(grid_ret, 0, target.w) = Black
    /\ Sample(grid_ret, grid_ret.h - 1, grid_ret.w - 1) = Black
    /\ Sample(grid_ret, grid_ret.h - 1, 0).src = final_images[7].src

SuppliedSlots == { s \in Slots : image_slots[s].present }
FirstSupplied == CHOOSE s \in SuppliedSlots : \A t \in SuppliedSlots : s <= t
RECURSIVE SizesFrom(_)
SizesFrom(s) == IF s > 6 THEN 0 ELSE image_slots[s].n + SizesFrom(s + 1)
\* the number of images supplied over all slots
TotalSupplied == SizesFrom(1)

\* C4: with no slot supplied the call returns one all-zero 512x512x3 image
\* for any columns and padding; with batches supplied whose concatenation is
\* empty it returns one all-zero image of the reference height, width and
\* channel count; in neither case does it reach the layout computation
\* (no division or modulo by cols = 0) or raise.
C4_EmptyInputPlaceholder ==
    /\ gerror = "none" /\ gpc # "raised"
    /\ gpc \in {"layout", "place"} => BatchSize >= 1 /\ TotalSupplied >= 1
    /\ gpc = "place" => cols >= 1
    /\ (gpc # "collect" /\ SuppliedSlots = {}) =>
        /\ gpc = "done"
        /\ grid_ret = [n |-> 1, h |-> 512, w |-> 512, c |-> 3, painted |-> <<>>]
    /\ (gpc # "collect" /\ SuppliedSlots # {} /\ TotalSupplied = 0) =>
        /\ gpc = "done"
        /\ grid_ret = [n |-> 1, h |-> image_slots[FirstSupplied].h,
                       w |-> image_slots[FirstSupplied].w,
                       c |-> image_slots[FirstSupplied].c, painted |-> <<>>]

C4_Witness ==
    /\ gpc = "done" /\ columns = 0 /\ padding > 0
    /\ Cardinality(SuppliedSlots) = 3 /\ TotalSupplied = 0
    /\ grid_ret.h = image_slots[1].h /\ grid_ret.c = 4

-----------------------------------------------------------------------------
(* Properties of the font resolver *)

\* the position of the first loadable candidate, 0 when none loads
FirstLoadable ==
    IF \E i \in 1..Len(font_paths) : font_paths[i] \in loadable
    THEN CHOOSE i \in 1..Len(font_paths) :
            /\ font_paths[i] \in loadable
            /\ \A j \in 1..(i - 1) : font_paths[j] \notin loadable
    ELSE 0

BundledCount ==
    IF font_family \in DOMAIN CUSTOM_FONTS THEN Len(CUSTOM_FONTS[font_family]) ELSE 0
SystemCount ==
    IF font_family \in DOMAIN SYSTEM_FONTS THEN Len(SYSTEM_FONTS[font_family]) ELSE 0

\* C5: the candidates are, in this order, each bundled filename as a bare name
\* and then under the local fonts directory, the family's system paths, and on
\* Linux the two user font files; the font returned is the first candidate
\* that loads, at the requested size, or the built-in default when none loads
\* (an unknown family included); nothing is raised.
C5_FontResolutionOrder ==
    /\ ferror = "none"
    /\ fpc \in {"try", "done"} =>
        /\ Len(font_paths) = 2 * BundledCount + SystemCount + (IF is_linux THEN 2 ELSE 0)
        /\ \A k \in 1..BundledCount :
            /\ font_paths[2 * k - 1] = [dir |-> "", file |-> CUSTOM_FONTS[font_family][k]]
            /\ font_paths[2 * k] =
                  [dir |-> "<module>/fonts", file |-> CUSTOM_FONTS[font_family][k]]
        /\ \A j \in 1..SystemCount :
            font_paths[2 * BundledCount + j] =
                  [dir |-> "", file |-> SYSTEM_FONTS[font_family][j]]
        /\ is_linux =>
            /\ font_paths[Len(font_paths) - 1] =
                  [dir |-> "~/.fonts", file |-> "DejaVuSansMono.ttf"]
            /\ font_paths[Len(font_paths)] =
                  [dir |-> "~/.local/share/fonts", file |-> "DejaVuSansMono.ttf"]
    /\ fpc = "done" =>
        IF FirstLoadable = 0
        THEN font_ret = [kind |-> "default", path |-> [dir |-> "", file |-> ""], size |-> 0]
        ELSE font_ret = [kind |-> "truetype", path |-> font_paths[FirstLoadable],
                         size |-> font_size]

\* a system font and a later user font both load: the system font wins
C5_Witness ==
    /\ fpc = "done" /\ font_family = "Monospace" /\ is_linux
    /\ loadable = { [dir |-> "", file |-> "/Library/Fonts/Menlo.ttc"],
                    [dir |-> "~/.fonts", file |-> "DejaVuSansMono.ttf"] }
    /\ font_ret.path.file = "/Library/Fonts/Menlo.ttc"
    /\ fi = 8

-----------------------------------------------------------------------------
(* Properties of calculate_position *)

PosDone == ppc = "done"
Anchors == {"top_left", "top_right", "bottom_left", "bottom_right", "center"}

\* C6: without clamping to the image, top_left gives (offset, offset),
\* top_right (image_width - box_width - offset, offset), bottom_left
\* (offset, image_height - box_height - offset), bottom_right
\* (image_width - box_width - offset, image_height - box_height - offset),
\* so image (200,100), box (50,20), offset 10 gives (140, 70); a value that is
\* no anchor gives what center gives for the same sizes.
C6_AnchorPositions ==
    PosDone =>
        LET a == pos_args IN
        /\ a.placement = "top_left" => pos_ret = <<a.edge_offset, a.edge_offset>>
        /\ a.placement = "top_right" =>
              pos_ret = <<a.image_width - a.box_width - a.edge_offset, a.edge_offset>>
        /\ a.placement = "bottom_left" =>
              pos_ret = <<a.edge_offset, a.image_height - a.box_height - a.edge_offset>>
        /\ a.placement = "bottom_right" =>
              pos_ret = <<a.image_width - a.box_width - a.edge_offset,
                          a.image_height - a.box_height - a.edge_offset>>
        /\ a = [image_width |-> 200, image_height |-> 100, box_width |-> 50,
                box_height |-> 20, placement |-> "bottom_right", edge_offset |-> 10]
              => pos_ret = <<140, 70>>
        /\ a.placement \notin Anchors =>
              /\ pos_ret = calculate_position(a.image_width, a.image_height,
                                              a.box_width, a.box_height, "center",
                                              a.edge_offset)
              /\ 2 * pos_ret[1] \in {a.image_width - a.box_width,
                                     a.image_width - a.box_width - 1}
              /\ 2 * pos_ret[2] \in {a.image_height - a.box_height,
                                     a.image_height - a.box_height - 1}

\* a box larger than the image at bottom_right: both coordinates negative
C6_Witness ==
    /\ PosDone /\ pos_args.placement = "bottom_right"
    /\ pos_args.image_width = 4 /\ pos_args.box_width = 7 /\ pos_args.edge_offset = 10
    /\ pos_args.image_height = 3 /\ pos_args.box_height = 6
    /\ pos_ret = <<-13, -13>>

\* half of d with the fraction discarded (toward zero)
TruncatedHalf(d) == IF d >= 0 THEN d \div 2 ELSE -((-d) \div 2)

\* C7 as stated: for center, x = (image_width - box_width)/2 and
\* y = (image_height - box_height)/2 truncated toward zero, boxes larger than
\* the image included.
C7_CenterTruncated ==
    (PosDone /\ pos_args.placement = "center") =>
        pos_ret = << TruncatedHalf(pos_args.image_width - pos_args.box_width),
                     TruncatedHalf(pos_args.image_height - pos_args.box_height) >>

\* C7 as amended: for center, x and y are the halves of
\* image_width - box_width and image_height - box_height rounded down (toward
\* minus infinity): 2x <= image_width - box_width <= 2x + 1, and likewise y.
\* They equal the truncated halves whenever the difference is even or not negative.
C7_CenterFloored ==
    (PosDone /\ pos_args.placement = "center") =>
        LET dx == pos_args.image_width - pos_args.box_width
            dy == pos_args.image_height - pos_args.box_height
        IN /\ 2 * pos_ret[1] <= dx /\ dx <= 2 * pos_ret[1] + 1
           /\ 2 * pos_ret[2] <= dy /\ dy <= 2 * pos_ret[2] + 1
           /\ (dx >= 0 \/ dx % 2 = 0) => pos_ret[1] = TruncatedHalf(dx)
           /\ (dy >= 0 \/ dy % 2 = 0) => pos_ret[2] = TruncatedHalf(dy)

\* differences -3 and -3: floor gives -2 where truncation gives -1
C7_Witness ==
    /\ PosDone /\ pos_args.placement = "center"
    /\ pos_args.image_width = 4 /\ pos_args.box_width = 7
    /\ pos_args.image_height = 3 /\ pos_args.box_height = 6
    /\ pos_ret = <<-2, -2>>

-----------------------------------------------------------------------------
(* Properties of hex_to_rgba *)

ColorDone == cpc = "done"

\* the colour string without surrounding blanks and leading '#'
HexBody == LStrip(Strip(hex_color), {"#"})

\* a valid 3- or 6-hex-digit colour string
ValidHexColor ==
    /\ Len(HexBody) \in {3, 6}
    /\ \A i \in 1..Len(HexBody) : HexBody[i] \in DOMAIN HexDigit

\* the channels the digits denote, the 3-digit form doubling each digit
ClaimedChannel(k) ==
    IF Len(HexBody) = 3 THEN 17 * HexDigit[HexBody[k]]
    ELSE 16 * HexDigit[HexBody[2 * k - 1]] + HexDigit[HexBody[2 * k]]

\* round(clamp(opacity, 0, 1) * 255) of the fraction num/den
RoundedAlpha(a) ==
    LET num == IF a[1] < 0 THEN 0 ELSE IF a[1] > a[2] THEN a[2] ELSE a[1]
    IN (2 * 255 * num + a[2]) \div (2 * a[2])

\* C8 as stated: for every valid 3- or 6-hex-digit colour string and every
\* opacity the result is the colour's RGB channels with
\* alpha = round(clamp(opacity, 0, 1) * 255): fractional products are rounded,
\* not truncated.
C8_RoundedAlpha ==
    (ColorDone /\ ValidHexColor) =>
        /\ color_ret.raised = "none"
        /\ color_ret.rgba = << ClaimedChannel(1), ClaimedChannel(2), ClaimedChannel(3),
                               RoundedAlpha(alpha) >>

\* C9 as stated: hex_to_rgba never raises; a malformed colour string
\* (unsupported length, or 3 or 6 characters with a non-hex character) gives
\* RGB (255,255,255), and every opacity gives an alpha within 0..255.
C9_NeverRaises ==
    ColorDone =>
        /\ color_ret.raised = "none"
        /\ color_ret.rgba[4] \in 0..255
        /\ ~ValidHexColor =>
              << color_ret.rgba[1], color_ret.rgba[2], color_ret.rgba[3] >>
                  = <<255, 255, 255>>

-----------------------------------------------------------------------------
(* Properties of TextLabel.add_text_label *)

\* C10 as stated, for a batch that is not empty: the call returns a batch with
\* as many images as its input, in the same order (a 3D input counting as a
\* batch of one); output image i has the height, width and channel count of
\* input image i and is a function of input image i and the style parameters
\* alone.
C10_BatchPreserved ==
    /\ (label_args.dim = 3 \/ label_args.n >= 1) => lerror = "none"
    /\ lpc = "done" =>
        /\ Len(label_ret) = (IF label_args.dim = 3 THEN 1 ELSE label_args.n)
        /\ \A i \in 1..Len(label_ret) :
            /\ label_ret[i].src = i
            /\ label_ret[i].h = label_args.h
            /\ label_ret[i].w = label_args.w
            /\ label_ret[i].c = label_args.c
            /\ label_ret[i] =
                  Render(InputImage(label_args, i), label_args, font, scheme_colors)

-----------------------------------------------------------------------------
(* Properties of the batch normalizer of ImageGrid.create_grid *)

\* the input images: image k of the batch in slot s is numbered 100 * s + k,
\* so that slot order, then batch order, is the order of the numbers
InputSources ==
    UNION { { 100 * s + k : k \in 1..image_slots[s].n } : s \in SuppliedSlots }

\* C11: the reference is the per-image height and width of the first supplied
\* batch; after the normalizer every image of the concatenated batch has
\* exactly the reference height and width, the concatenated batch has as many
\* images as the input batches together, and the images keep their order
\* (slot order, then the order within each batch), absent slots being skipped.
C11_NormalizedBatch ==
    (gpc # "collect" /\ SuppliedSlots # {}) =>
        /\ target.h = image_slots[FirstSupplied].h
        /\ target.w = image_slots[FirstSupplied].w
        /\ \A i \in 1..Len(final_images) :
            /\ final_images[i].h = image_slots[FirstSupplied].h
            /\ final_images[i].w = image_slots[FirstSupplied].w
        /\ Len(final_images) = TotalSupplied
        /\ { final_images[i].src : i \in 1..Len(final_images) } = InputSources
        /\ \A i, j \in 1..Len(final_images) :
            i < j => final_images[i].src < final_images[j].src

\* slot 1 absent; the batch of slot 6 differs from the reference of slot 2 and
\* follows it, resized
C11_Witness ==
    /\ gpc = "done" /\ SuppliedSlots = {2, 6}
    /\ image_slots[2].n = 3 /\ image_slots[2].h = 1 /\ image_slots[2].w = 2
    /\ image_slots[6].n = 7 /\ image_slots[6].h = 2 /\ image_slots[6].w = 1
    /\ Len(final_images) = 10
    /\ final_images[3].src = 203 /\ ~final_images[3].scaled
    /\ final_images[4].src = 601 /\ final_images[4].scaled
    /\ final_images[4].h = 1 /\ final_images[4].w = 2

====
